---- MODULE Spec2Model ----
(***************************************************************************)
(* Token security core of tyx-core: BaseSecurity (issueToken, verify,      *)
(* renew, secret, timeout, httpAuth, remoteAuth, eventAuth).               *)
(*                                                                         *)
(* Time is in milliseconds, as Date.now() returns it; token claims iat,    *)
(* exp, nbf and ist are in seconds, as jsonwebtoken writes them.           *)
(***************************************************************************)
EXTENDS Integers, Sequences, FiniteSets, TLC

VARIABLES
    config,     \* this.config, the injected Configuration
    now,        \* Date.now()
    issued,     \* the last issueToken call: the request object and what came of it
    token,      \* the credential a caller holds and presents next
    res,        \* the last verify / httpAuth / remoteAuth / eventAuth call
    triple,     \* arguments of a direct secret() / timeout() call
    resolved    \* what that call produced

vars == <<config, now, issued, token, res, triple, resolved>>

-----------------------------------------------------------------------------
(* JavaScript values *)

Undefined == "undefined"
Null == "null"

\* JavaScript truthiness of a string-or-missing value: !v
Falsy(v) == v \in {Undefined, Null, ""}

\* a || b
OrElse(a, b) == IF Falsy(a) THEN b ELSE a

\* the element of a one-element set: names a value that is computed once
Only(S) == CHOOSE x \in S : TRUE

MsPerSec == 1000

\* Math.floor(ms / 1000)
FloorSec(ms) == ms \div MsPerSec

-----------------------------------------------------------------------------
(* Bounds *)

\* the clock runs from 0 to MaxTicks half-seconds
MaxTicks == 4

-----------------------------------------------------------------------------
(* Configuration *)

\* application ids: this application, two peers with a registered secret, a stranger
Ids == {"app", "peer", "2001", "anon"}

BaseConfig ==
    [ appId           |-> "app",
      httpSecret      |-> "http-secret",
      internalSecret  |-> "internal-secret",
      remoteSecrets   |-> [i \in Ids |-> CASE i = "peer" -> "peer-secret"
                                           [] i = "2001" -> "y2k-secret"
                                           [] OTHER      -> Undefined],
      httpTimeout     |-> "2s",
      internalTimeout |-> "1s",
      remoteTimeout   |-> "1s",
      httpLifetime    |-> "3s" ]

\* configurations with one value left empty
Configs ==
    { BaseConfig,
      [BaseConfig EXCEPT !.httpSecret = Undefined],
      [BaseConfig EXCEPT !.internalSecret = ""],
      [BaseConfig EXCEPT !.httpTimeout = Undefined],
      [BaseConfig EXCEPT !.internalTimeout = ""],
      [BaseConfig EXCEPT !.remoteTimeout = Undefined] }

\* this.config.remoteSecret(id)
remoteSecret(id) ==
    IF id \in DOMAIN config.remoteSecrets THEN config.remoteSecrets[id] ELSE Undefined

\* MS(str): the ms package, on the duration strings the configurations use
MS(str) ==
    CASE str = "1s" -> 1 * MsPerSec
      [] str = "2s" -> 2 * MsPerSec
      [] str = "3s" -> 3 * MsPerSec
      [] str = "4s" -> 4 * MsPerSec

\* new Date(str).getTime(): <<>> is NaN (Invalid Date), <<t>> a time.  Of the ids
\* only "2001" reads as a date: 2001-01-01T00:00:00Z, decades before the clock's 0.
DateParse(str) == IF str = "2001" THEN << -(1000000 * MsPerSec) >> ELSE << >>

-----------------------------------------------------------------------------
(* Results of calls: a value returned, or an error thrown *)

Return(v) == [err |-> "", value |-> v]
Throw(e, m) == [err |-> e, message |-> m]
Ok(r) == r.err = ""

-----------------------------------------------------------------------------
(* SecretResolver *)

Subjects == {"user:internal", "user:external", "remote", "internal", "event"}

\* subject.startsWith("user:")
startsWithUser(subject) ==
    subject \in {"user:internal", "user:external", "user:public", "user:debug"}

\* a variant of secretRule with the looser second and fifth conditions
secretRule_loose(subject, issuer, audience) ==
    IF startsWithUser(subject) THEN 1
    ELSE IF subject = "internal" /\ audience = config.appId THEN 2
    ELSE IF subject = "remote" /\ audience = config.appId /\ issuer = audience THEN 3
    ELSE IF subject = "remote" /\ audience = config.appId /\ issuer # audience THEN 4
    ELSE IF subject = "remote" /\ audience # config.appId THEN 5
    ELSE 0

\* the match conditions of secret(), in order: the number of the first that holds
secretRule(subject, issuer, audience) ==
    IF startsWithUser(subject) THEN 1
    ELSE IF subject = "internal" /\ audience = config.appId /\ issuer = audience THEN 2
    ELSE IF subject = "remote" /\ audience = config.appId /\ issuer = audience THEN 3
    ELSE IF subject = "remote" /\ audience = config.appId /\ issuer # audience THEN 4
    ELSE IF subject = "remote" /\ issuer = config.appId /\ issuer # audience THEN 5
    ELSE 0

secret(subject, issuer, audience) ==
    LET rule == secretRule(subject, issuer, audience)
        s == CASE rule = 1 -> config.httpSecret
               [] rule = 2 -> config.internalSecret
               [] rule = 3 -> config.internalSecret
               [] rule = 4 -> remoteSecret(issuer)
               [] rule = 5 -> remoteSecret(audience)
               [] OTHER    -> Undefined
    IN  IF Falsy(s)
        THEN Throw("Unauthorized", "Can not resolve token secret")
        ELSE Return(s)

timeoutRule(subject, issuer, audience) ==
    IF startsWithUser(subject) THEN 1
    ELSE IF subject = "internal" /\ audience = config.appId THEN 2
    ELSE IF subject = "remote" /\ audience = config.appId /\ issuer = audience THEN 3
    ELSE IF subject = "remote" /\ audience = config.appId /\ issuer # audience THEN 4
    ELSE IF subject = "remote" /\ audience # config.appId THEN 5
    ELSE 0

timeout(subject, issuer, audience) ==
    LET rule == timeoutRule(subject, issuer, audience)
        t == CASE rule = 1 -> config.httpTimeout
               [] rule = 2 -> config.internalTimeout
               [] rule = 3 -> config.internalTimeout
               [] rule = 4 -> config.remoteTimeout
               [] rule = 5 -> config.remoteTimeout
               [] OTHER    -> Undefined
    IN  IF Falsy(t)
        THEN Throw("Unauthorized", "Can not resolve token timeout")
        ELSE Return(t)

-----------------------------------------------------------------------------
(* Tokens on the wire and TokenCodec (jsonwebtoken)                         *)
(*                                                                         *)
(* A credential is a string: nothing, text that is no JWT, or a JWT; a JWT *)
(* is its payload and the secret its signature was made with.  bearer says *)
(* the string starts with "Bearer".                                        *)

NoPayload ==
    [ jti |-> Undefined, iss |-> Undefined, aud |-> Undefined, sub |-> Undefined,
      iat |-> 0, exp |-> 0, nbf |-> << >>, ist |-> 0,
      oid |-> Undefined, role |-> Undefined, scope |-> Undefined,
      email |-> Undefined, ipaddr |-> Undefined, name |-> Undefined ]

NoToken == [bearer |-> FALSE, form |-> "absent", sig |-> "", payload |-> NoPayload]
Garbage == [bearer |-> FALSE, form |-> "malformed", sig |-> "", payload |-> NoPayload]

\* !token
Absent(tok) == tok.form = "absent" /\ ~tok.bearer

\* a || b on credentials
OrToken(a, b) == IF Absent(a) THEN b ELSE a

\* new Date(ms)
DateOf(ms) == [kind |-> "date", ms |-> ms]

\* JWT.sign(payload, secretOrPrivateKey, options): iat is the clock in seconds, exp
\* is iat plus the expiresIn duration, undefined claims are left out
JWT_sign(claims, secretOrKey, options) ==
    LET iat == FloorSec(now)
    IN  [ bearer  |-> FALSE,
          form    |-> "jwt",
          sig     |-> secretOrKey,
          payload |-> [ jti |-> options.jwtid, iss |-> options.issuer,
                        aud |-> options.audience, sub |-> options.subject,
                        iat |-> iat,
                        exp |-> FloorSec(iat * MsPerSec + MS(options.expiresIn)),
                        nbf |-> << >>, ist |-> claims.ist,
                        oid |-> claims.oid, role |-> claims.role,
                        scope |-> claims.scope, email |-> claims.email,
                        ipaddr |-> claims.ipaddr, name |-> Undefined ] ]

\* JWT.decode(token): << >> is null, <<p>> the unverified payload
JWT_decode(tok) == IF tok.form = "jwt" THEN <<tok.payload>> ELSE << >>

\* JWT.verify(token, secretOrPublicKey): the checks in jsonwebtoken's order
JWT_verify(tok, secretOrKey) ==
    LET clockTimestamp == FloorSec(now)
        p == tok.payload
    IN  IF tok.form = "absent"
        THEN Throw("JsonWebTokenError", "jwt must be provided")
        ELSE IF tok.form # "jwt"
        THEN Throw("JsonWebTokenError", "jwt malformed")
        ELSE IF tok.sig # secretOrKey
        THEN Throw("JsonWebTokenError", "invalid signature")
        ELSE IF p.nbf # << >> /\ p.nbf[1] > clockTimestamp
        THEN Throw("NotBeforeError", "jwt not active")
        ELSE IF clockTimestamp >= p.exp
        THEN Throw("TokenExpiredError", "jwt expired")
        ELSE Return(p)

-----------------------------------------------------------------------------
(* Permissions *)

RoleNames == {"Public", "Internal", "Remote", "Debug", "User"}

\* the permission whose role set holds true for exactly the roles in allowed
Permission(allowed) == [method |-> "method", roles |-> [r \in RoleNames |-> r \in allowed]]

\* permission.roles[role] === true
roleIsTrue(permission, role) ==
    role \in DOMAIN permission.roles /\ permission.roles[role] = TRUE

\* permission.roles.X as a condition
allows(permission, role) == roleIsTrue(permission, role)

-----------------------------------------------------------------------------
(* issueToken *)

\* a variant of serialOf that reads a numeric serial as seconds
serialOf_seconds(r) ==
    IF r.serial.kind = "date" THEN r.serial.ms
    ELSE IF r.serial.kind = "number" /\ r.serial.ms # 0 THEN r.serial.ms * MsPerSec
    ELSE now

\* (req.serial instanceof Date) ? req.serial.getTime() : +req.serial || Date.now()
serialOf(r) ==
    IF r.serial.kind = "date" THEN r.serial.ms
    ELSE IF r.serial.kind = "number" /\ r.serial.ms # 0 THEN r.serial.ms
    ELSE now

\* issueToken(req), with uuid what Utils.uuid() would return.  The result carries
\* req, the request object as the call leaves it.
issueToken(r, uuid) ==
    LET r1 == [r EXCEPT !.tokenId = OrElse(r.tokenId, uuid),
                        !.audience = OrElse(r.audience, config.appId)]
        sec == secret(r1.subject, config.appId, r1.audience)
        tmo == timeout(r1.subject, config.appId, r1.audience)
    IN  IF ~Ok(sec) THEN [err |-> sec.err, message |-> sec.message, req |-> r1]
        ELSE IF ~Ok(tmo) THEN [err |-> tmo.err, message |-> tmo.message, req |-> r1]
        ELSE [ err   |-> "",
               value |-> JWT_sign(
                            [ oid |-> r1.userId, role |-> r1.role, scope |-> r1.scope,
                              ist |-> FloorSec(serialOf(r1)), email |-> r1.email,
                              ipaddr |-> r1.ipAddress ],
                            sec.value,
                            [ jwtid |-> r1.tokenId, issuer |-> config.appId,
                              audience |-> r1.audience, subject |-> r1.subject,
                              expiresIn |-> tmo.value ]),
               req   |-> r1 ]

-----------------------------------------------------------------------------
(* verify *)

\* if (token && token.startsWith("Bearer")) token = token.substring(6).trim()
stripBearer(tok) == IF tok.bearer THEN [tok EXCEPT !.bearer = FALSE] ELSE tok

\* the try block of verify: strip, decode, resolve the secret, verify
verifyToken(tok) ==
    LET jwt == JWT_decode(tok)
        sec == IF jwt = << >> THEN Return("NULL")
               ELSE secret(jwt[1].sub, jwt[1].iss, jwt[1].aud)
    IN  IF Ok(sec) THEN JWT_verify(tok, sec.value) ELSE sec

\* a variant of verifyCatch that reports every failure as BadRequest
verifyCatch_allBadRequest(e) == Throw("BadRequest", e.message)

\* a variant of verifyCatch that reports every failure as Unauthorized
verifyCatch_allUnauthorized(e) == Throw("Unauthorized", e.message)

\* the catch block of verify
verifyCatch(e) ==
    IF e.message = "jwt expired"
    THEN Throw("Unauthorized", "Token: expired")
    ELSE Throw("BadRequest", e.message)

\* new Date(jwt.iss).getTime() + MS(timeout) < Date.now(); false when the sum is NaN
aged(jwt, tmo) ==
    LET t == DateParse(jwt.iss)
    IN  t # << >> /\ t[1] + MS(tmo) < now

\* a variant of audienceRejected without the audience check
audienceRejected_unchecked(jwt) == FALSE

\* jwt.aud !== this.config.appId
audienceRejected(jwt) == jwt.aud # config.appId

\* a variant of ipRejected without the ip check
ipRejected_unchecked(jwt, ipAddress) == FALSE

\* jwt.role !== "Application" && ipAddress && jwt.ipaddr !== ipAddress
ipRejected(jwt, ipAddress) ==
    jwt.role # "Application" /\ ~Falsy(ipAddress) /\ jwt.ipaddr # ipAddress

\* a variant of roleRejected without the role check
roleRejected_unchecked(jwt, permission) == FALSE

\* jwt.role !== "Application" && permission.roles[jwt.role] !== true
roleRejected(jwt, permission) ==
    jwt.role # "Application" /\ ~roleIsTrue(permission, jwt.role)

\* the checks of verify on the verified claims jwt, and the Context it assembles
verifyClaims(requestId, tok, permission, ipAddress, jwt) ==
    LET tmo == timeout(jwt.sub, jwt.iss, jwt.aud)
    IN  IF audienceRejected(jwt)
        THEN Throw("Unauthorized", "Invalid audience")
        ELSE IF ipRejected(jwt, ipAddress)
        THEN Throw("Unauthorized", "Invalid request IP address")
        ELSE IF roleRejected(jwt, permission)
        THEN Throw("Unauthorized", "Role not authorized")
        ELSE IF ~Ok(tmo) THEN tmo
        ELSE IF aged(jwt, tmo.value)
        THEN Throw("Unauthorized", "Token: expired by age")
        ELSE Return(
               [ requestId  |-> requestId,
                 permission |-> permission,
                 auth |-> [ tokenId |-> jwt.jti, subject |-> jwt.sub,
                            issuer |-> jwt.iss, audience |-> jwt.aud,
                            remote |-> jwt.iss # jwt.aud,
                            userId |-> jwt.oid, role |-> jwt.role,
                            scope |-> jwt.scope, email |-> jwt.email,
                            name |-> jwt.name, ipAddress |-> jwt.ipaddr,
                            serial |-> DateOf(jwt.ist * MsPerSec),
                            issued |-> DateOf(jwt.iat * MsPerSec),
                            expires |-> DateOf(jwt.exp * MsPerSec),
                            token |-> tok, renewed |-> FALSE ] ])

verify(requestId, tok0, permission, ipAddress) ==
    Only({ IF ~Ok(ver) THEN verifyCatch(ver)
           ELSE verifyClaims(requestId, stripBearer(tok0), permission, ipAddress,
                             ver.value) :
           ver \in {verifyToken(stripBearer(tok0))} })

-----------------------------------------------------------------------------
(* renew *)

\* a variant of reissue that also moves auth.expires to the new token's exp
reissue_refreshed(a, uuid) ==
    Only({ IF ~Ok(t) THEN Throw(t.err, t.message)
           ELSE Return([t.req EXCEPT !.token = t.value, !.renewed = TRUE,
                                     !.expires = DateOf(t.value.payload.exp * MsPerSec)]) :
           t \in {issueToken(a, uuid)} })

\* the last two statements of renew: auth.token = this.issueToken(auth), renewed
reissue(a, uuid) ==
    Only({ IF ~Ok(t) THEN Throw(t.err, t.message)
           ELSE Return([t.req EXCEPT !.token = t.value, !.renewed = TRUE]) :
           t \in {issueToken(a, uuid)} })

\* a variant of renew that reissues whatever the issuer, subject and age
renew_always(auth, uuid) == reissue([auth EXCEPT !.renewed = FALSE], uuid)

\* a variant of renew without the cap on expiry minus serial
renew_uncapped(auth, uuid) ==
    LET a == [auth EXCEPT !.renewed = FALSE]
    IN  IF a.issuer # config.appId \/ Falsy(config.httpLifetime) THEN Return(a)
        ELSE IF a.subject # "user:internal" /\ a.subject # "user:external" THEN Return(a)
        ELSE IF a.expires.ms - now > MS(config.httpTimeout) \div 2 THEN Return(a)
        ELSE reissue(a, uuid)

\* a variant of renew that never reissues
renew_never(auth, uuid) == Return([auth EXCEPT !.renewed = FALSE])

\* renew(auth): the AuthInfo returned, or the error issueToken threw
renew(auth, uuid) ==
    LET a == [auth EXCEPT !.renewed = FALSE]
    IN  IF a.issuer # config.appId \/ Falsy(config.httpLifetime) THEN Return(a)
        ELSE IF a.subject # "user:internal" /\ a.subject # "user:external" THEN Return(a)
        ELSE IF a.expires.ms - now > MS(config.httpTimeout) \div 2 THEN Return(a)
        ELSE IF a.expires.ms - a.serial.ms > MS(config.httpLifetime) THEN Return(a)
        ELSE reissue(a, uuid)

-----------------------------------------------------------------------------
(* Entry protocols *)

\* the token httpAuth takes from the request: headers, then query string, then path
extractToken(req) ==
    OrToken(OrToken(OrToken(req.headers.Authorization, req.headers.authorization),
                    OrToken(req.queryStringParameters.authorization,
                            req.queryStringParameters.token)),
            req.pathParameters.authorization)

\* the Context httpAuth builds before it looks at Debug
publicContext(req, permission, tok) ==
    [ requestId  |-> req.requestId,
      permission |-> permission,
      auth |-> [ tokenId |-> req.requestId, subject |-> "user:public",
                 issuer |-> config.appId, audience |-> config.appId,
                 remote |-> FALSE, userId |-> Null, role |-> "Public",
                 issued |-> DateOf(now), expires |-> DateOf(now + 60000),
                 token |-> tok, renewed |-> FALSE ] ]

\* ctx.auth = this.renew(ctx.auth) on the Context v that verify returned.  kept is
\* the Context the caller's variable holds when renew throws.
renewContext(v, uuid) ==
    Only({ IF ~Ok(rn)
           THEN [ err |-> rn.err, message |-> rn.message, assigned |-> TRUE,
                  kept |-> [v EXCEPT !.auth.renewed = FALSE] ]
           ELSE Return([v EXCEPT !.auth = rn.value]) :
           rn \in {renew(v.auth, uuid)} })

\* verify, then renew: the two statements httpAuth runs on a token
verifyAndRenew(req, tok, permission, uuid) ==
    Only({ IF ~Ok(v) THEN [err |-> v.err, message |-> v.message, assigned |-> FALSE]
           ELSE renewContext(v.value, uuid) :
           v \in {verify(req.requestId, tok, permission, req.sourceIp)} })

\* a variant of tokenMandatory that asks for a token when either role is missing
tokenMandatory_either(permission) ==
    ~allows(permission, "Public") \/ ~allows(permission, "Debug")

\* !permission.roles.Public && !permission.roles.Debug
tokenMandatory(permission) ==
    ~allows(permission, "Public") /\ ~allows(permission, "Debug")

\* a variant of notLocalhost without the loopback check
notLocalhost_unchecked(sourceIp) == FALSE

\* req.sourceIp !== "127.0.0.1" && req.sourceIp !== "::1"
notLocalhost(sourceIp) == sourceIp # "127.0.0.1" /\ sourceIp # "::1"

\* a variant of debugContext that keeps the synthetic identity whatever the token
debugContext_synthetic(tok, vr, dbg) == Return(dbg)

\* a variant of debugContext that answers a failing token with Forbidden
debugContext_forbids(tok, vr, dbg) ==
    IF Absent(tok) THEN Return(dbg)
    ELSE IF Ok(vr) THEN vr
    ELSE Throw("Forbidden", vr.message)

\* a variant of debugContext that lets the failure of verify through
debugContext_rethrows(tok, vr, dbg) ==
    IF Absent(tok) THEN Return(dbg)
    ELSE IF Ok(vr) THEN vr
    ELSE Throw(vr.err, vr.message)

\* if (token) try { ctx = verify; ctx.auth = renew } catch { log }: the Context the
\* Debug branch is left with, dbg being the synthetic debug Context
debugContext(tok, vr, dbg) ==
    IF Absent(tok) THEN Return(dbg)
    ELSE IF Ok(vr) THEN vr
    ELSE IF vr.assigned THEN Return(vr.kept)
    ELSE Return(dbg)

\* httpAuth once the token is extracted; vr is verifyAndRenew's outcome, read only
\* where the code gets that far
httpAuthOn(req, permission, tok, vr) ==
    LET ctx == publicContext(req, permission, tok)
        dbg == [ctx EXCEPT !.auth.subject = "user:debug", !.auth.role = "Debug"]
    IN  IF tokenMandatory(permission)
        THEN IF Absent(tok) THEN Throw("Unauthorized", "Missing authorization token")
             ELSE IF Ok(vr) THEN vr ELSE Throw(vr.err, vr.message)
        ELSE IF allows(permission, "Debug")
        THEN IF notLocalhost(req.sourceIp)
             THEN Throw("Forbidden", "Debug role only valid for localhost")
             ELSE debugContext(tok, vr, dbg)
        ELSE Return(ctx)

httpAuth(req, permission, uuid) ==
    Only({ httpAuthOn(req, permission, tv[1], tv[2]) :
           tv \in { <<tok, verifyAndRenew(req, tok, permission, uuid)>> :
                    tok \in {extractToken(req)} } })

\* a variant of remoteRejected without the Remote check
remoteRejected_unchecked(auth, permission) == FALSE

\* ctx.auth.remote && !permission.roles.Remote
remoteRejected(auth, permission) == auth.remote /\ ~allows(permission, "Remote")

remoteAuth(req, permission) ==
    IF ~allows(permission, "Remote") /\ ~allows(permission, "Internal")
    THEN Throw("Forbidden", "Remote requests not allowed")
    ELSE Only({ IF ~Ok(v) THEN v
                ELSE IF remoteRejected(v.value.auth, permission)
                THEN Throw("Unauthorized", "Internal request allowed only")
                ELSE v :
                v \in {verify(req.requestId, req.token, permission, Null)} })

\* a variant of eventRejected without the Internal check
eventRejected_unchecked(permission) == FALSE

\* !permission.roles.Internal
eventRejected(permission) == ~allows(permission, "Internal")

eventAuth(req, permission) ==
    IF eventRejected(permission)
    THEN Throw("Forbidden", "Internal events not allowed")
    ELSE Return(
           [ requestId  |-> req.requestId,
             permission |-> permission,
             auth |-> [ tokenId |-> req.requestId, subject |-> "event",
                        issuer |-> config.appId, audience |-> config.appId,
                        remote |-> FALSE, userId |-> Null, role |-> "Internal",
                        issued |-> DateOf(now), expires |-> DateOf(now + 60000),
                        token |-> NoToken, renewed |-> FALSE ] ])

-----------------------------------------------------------------------------
(* Inputs *)

NoSerial == [kind |-> "none", ms |-> 0]

\* an IssueRequest
Req(subject, audience, role, ipAddress, tokenId, serial) ==
    [ tokenId |-> tokenId, audience |-> audience, subject |-> subject,
      userId |-> "u1", role |-> role, scope |-> "read", serial |-> serial,
      email |-> "u1@example.org", ipAddress |-> ipAddress ]

Uuids == {"uuid-1"}

SourceIps == {"127.0.0.1", "::1", "10.0.0.5"}

Permissions ==
    { Permission(a) : a \in { {}, {"User"}, {"Public"}, {"Debug"}, {"Public", "Debug"},
                              {"Debug", "User"}, {"Internal"}, {"Remote"},
                              {"Internal", "Remote", "User"} } }

\* an HttpRequest carrying tok in one of the five places httpAuth looks
HttpRequest(tok, slot, sourceIp) ==
    [ requestId |-> "rid",
      headers |-> [ Authorization |-> IF slot = 1 THEN tok ELSE NoToken,
                    authorization |-> IF slot = 2 THEN tok ELSE NoToken ],
      queryStringParameters |-> [ authorization |-> IF slot = 3 THEN tok ELSE NoToken,
                                  token |-> IF slot = 4 THEN tok ELSE NoToken ],
      pathParameters |-> [ authorization |-> IF slot = 5 THEN tok ELSE NoToken ],
      sourceIp |-> sourceIp ]

\* the secret a peer application signs with: the one registered here, or its own
peerSecret(p) == OrElse(remoteSecret(p), "unregistered-secret")

\* a token issued by peer p for this application: p's issueToken with subject remote
\* and audience this application's id, rule 5 of p's secret()
peerToken(p, role) ==
    JWT_sign([ oid |-> "svc", role |-> role, scope |-> Undefined,
               ist |-> FloorSec(now), email |-> Undefined, ipaddr |-> Undefined ],
             peerSecret(p),
             [ jwtid |-> "peer-jti", issuer |-> p, audience |-> config.appId,
               subject |-> "remote", expiresIn |-> BaseConfig.remoteTimeout ])

NoCall == [op |-> "none"]

-----------------------------------------------------------------------------
(* Actions *)


\* no call is in progress: the last one has returned to its caller
Idle == res = NoCall

\* the caller holds no credential yet
EmptyHanded == Idle /\ token = NoToken

Tick ==
    /\ Idle
    /\ now < MaxTicks * 500
    /\ now' = now + 500
    /\ res' = NoCall
    /\ UNCHANGED <<config, issued, token, triple, resolved>>

\* the application issues a token for request r
DoIssue(r, uuid) ==
    \E out \in {issueToken(r, uuid)} :
        /\ issued' = [op |-> "issueToken", arg |-> r, out |-> out]
        /\ token' = IF Ok(out) THEN out.value ELSE NoToken
        /\ res' = NoCall
        /\ UNCHANGED <<config, now, triple, resolved>>

\* a peer application issues a token for this one
PeerIssue ==
    /\ EmptyHanded
    /\ \E p \in Ids \ {"app"}, role \in {"User", "Application"} :
        /\ token' = peerToken(p, role)
        /\ issued' = NoCall
        /\ res' = NoCall
        /\ UNCHANGED <<config, now, triple, resolved>>

\* the caller has no token, or text that is no token
Discard ==
    /\ Idle
    /\ \E t \in {NoToken, Garbage} : token' = t /\ <<token, issued>> # <<t, NoCall>>
    /\ issued' = NoCall
    /\ res' = NoCall
    /\ UNCHANGED <<config, now, triple, resolved>>

\* the caller sends the token as "Bearer <token>"
AddBearer ==
    /\ Idle
    /\ ~token.bearer
    /\ token' = [token EXCEPT !.bearer = TRUE]
    /\ res' = NoCall
    /\ UNCHANGED <<config, now, issued, triple, resolved>>

\* the token's payload is kept and signed again with another secret
Resign ==
    /\ Idle
    /\ token.form = "jwt"
    /\ ~token.bearer
    /\ \E s \in {"attacker-secret", BaseConfig.httpSecret, BaseConfig.internalSecret} :
        /\ token.sig # s
        /\ token' = [token EXCEPT !.sig = s]
        /\ issued' = NoCall
        /\ res' = NoCall
        /\ UNCHANGED <<config, now, triple, resolved>>

\* a token made outside: any subject and issuer, signed with the maker's own secret
forgedToken(subject, issuer) ==
    [ bearer |-> FALSE, form |-> "jwt", sig |-> "attacker-secret",
      payload |-> [ jti |-> "forged-jti", iss |-> issuer, aud |-> config.appId,
                    sub |-> subject, iat |-> FloorSec(now),
                    exp |-> FloorSec(now) + 1, nbf |-> << >>, ist |-> FloorSec(now),
                    oid |-> "u1", role |-> "Application", scope |-> Undefined,
                    email |-> Undefined, ipaddr |-> Undefined, name |-> Undefined ] ]

Forge ==
    /\ EmptyHanded
    /\ \E subject \in Subjects, issuer \in Ids :
        /\ token' = forgedToken(subject, issuer)
        /\ issued' = NoCall
        /\ res' = NoCall
        /\ UNCHANGED <<config, now, triple, resolved>>

\* the token's payload gets a not-before time that is still to come
PostDate ==
    /\ Idle
    /\ token.form = "jwt"
    /\ ~token.bearer
    /\ token.payload.nbf = << >>
    /\ token' = [token EXCEPT !.payload.nbf = <<FloorSec(now) + 1>>]
    /\ issued' = NoCall
    /\ res' = NoCall
    /\ UNCHANGED <<config, now, triple, resolved>>

\* the caller now holds the token the last call returned in its Context
Adopt ==
    /\ res.op \in {"verify", "httpAuth", "remoteAuth"}
    /\ Ok(res.out)
    /\ res.out.value.auth.token # token
    /\ token' = res.out.value.auth.token
    /\ issued' = NoCall
    /\ res' = NoCall
    /\ UNCHANGED <<config, now, triple, resolved>>

\* the call returns; its caller keeps the token it had
Complete ==
    /\ ~Idle
    /\ res' = NoCall
    /\ UNCHANGED <<config, now, issued, token, triple, resolved>>

\* verify called as a subclass or a test calls it
VerifyWith(permissions, ipAddresses) ==
    /\ Idle
    /\ \E permission \in permissions, ip \in ipAddresses :
        /\ res' = [ op |-> "verify", permission |-> permission, ip |-> ip,
                    token |-> token, at |-> now,
                    out |-> verify("rid", token, permission, ip) ]
        /\ UNCHANGED <<config, now, issued, token, triple, resolved>>

\* secret() and timeout() called on a triple
Resolve ==
    /\ resolved = NoCall
    /\ resolved' = [ op |-> "resolve",
                     secret |-> secret(triple.subject, triple.issuer, triple.audience),
                     timeout |-> timeout(triple.subject, triple.issuer,
                                         triple.audience) ]
    /\ UNCHANGED <<config, now, issued, token, res, triple>>

\* httpAuth called with the caller's token, from one of the addresses sourceIps
HttpAuthFrom(sourceIps) ==
    /\ Idle
    /\ \E permission \in Permissions, ip \in sourceIps, slot \in 1..5, uuid \in Uuids :
      \E req \in {HttpRequest(token, slot, ip)} :
        /\ res' = [ op |-> "httpAuth", permission |-> permission, ip |-> ip,
                    token |-> token, at |-> now,
                    out |-> httpAuth(req, permission, uuid) ]
        /\ UNCHANGED <<config, now, issued, token, triple, resolved>>

HttpAuth == HttpAuthFrom(SourceIps)

\* httpAuth called by a transport that may leave req.sourceIp unset
HttpAuthAnyIp == HttpAuthFrom(SourceIps \cup {Undefined})

RemoteAuth ==
    /\ Idle
    /\ \E permission \in Permissions :
        /\ res' = [ op |-> "remoteAuth", permission |-> permission, ip |-> Null,
                    token |-> token, at |-> now,
                    out |-> remoteAuth([requestId |-> "rid", token |-> token],
                                       permission) ]
        /\ UNCHANGED <<config, now, issued, token, triple, resolved>>

EventAuth ==
    /\ Idle
    /\ \E permission \in Permissions :
        /\ res' = [ op |-> "eventAuth", permission |-> permission, ip |-> Null,
                    token |-> token, at |-> now,
                    out |-> eventAuth([requestId |-> "rid"], permission) ]
        /\ UNCHANGED <<config, now, issued, token, triple, resolved>>

-----------------------------------------------------------------------------
(* The gate: tokens issued here or by peers, presented to the entry protocols *)

NoTriple == [subject |-> Undefined, issuer |-> Undefined, audience |-> Undefined]

GateRequests ==
    { Req(s, a, r, ip, Undefined, NoSerial) :
        s \in Subjects, a \in {Undefined, "peer"}, r \in {"User", "Application"},
        ip \in {Undefined, "127.0.0.1"} }

Issue == EmptyHanded /\ \E r \in GateRequests, uuid \in Uuids : DoIssue(r, uuid)

Init ==
    /\ config = BaseConfig
    /\ now = 0
    /\ issued = NoCall
    /\ token = NoToken
    /\ res = NoCall
    /\ triple = NoTriple
    /\ resolved = NoCall

Next ==
    \/ Tick
    \/ Issue
    \/ PeerIssue
    \/ Discard
    \/ AddBearer
    \/ Resign
    \/ Forge
    \/ Adopt
    \/ Complete
    \/ HttpAuth
    \/ RemoteAuth
    \/ EventAuth

Spec == Init /\ [][Next]_vars

-----------------------------------------------------------------------------
(* issueToken and verify on their own: every kind of IssueRequest, tokens   *)
(* re-signed and post-dated                                                *)

VerifyRequests ==
    { Req(s, a, r, ip, id, serial) :
        s \in Subjects, a \in {Undefined, "app", "peer"}, r \in {"User", "Application"},
        ip \in {Undefined, "10.0.0.5"}, id \in {Undefined, "token-1"},
        serial \in {NoSerial, [kind |-> "number", ms |-> 1500], DateOf(1000)} }

IssueAny == EmptyHanded /\ \E r \in VerifyRequests, uuid \in Uuids : DoIssue(r, uuid)

Verify ==
    VerifyWith({Permission({"User"}), Permission({}), Permission({"Internal"})},
               {Null, "10.0.0.5", "127.0.0.1"})

NextVerify ==
    \/ Tick
    \/ IssueAny
    \/ Discard
    \/ Forge
    \/ Resign
    \/ PostDate
    \/ AddBearer
    \/ Verify
    \/ Complete

SpecVerify == Init /\ [][NextVerify]_vars

-----------------------------------------------------------------------------
(* secret() and timeout() as functions of their arguments and the           *)
(* configuration                                                           *)

ResolveSubjects == Subjects \cup {"user:public", "unknown"}

InitResolve ==
    /\ config \in Configs
    /\ now = 0
    /\ issued = NoCall
    /\ token = NoToken
    /\ res = NoCall
    /\ triple \in [subject : ResolveSubjects, issuer : Ids, audience : Ids]
    /\ resolved = NoCall

NextResolve == Resolve

SpecResolve == InitResolve /\ [][NextResolve]_vars


-----------------------------------------------------------------------------
(* Renewal: user tokens presented to httpAuth again and again, under        *)
(* configurations that differ in the HTTP timeout and the renewal lifetime *)

RenewConfigs ==
    { BaseConfig,
      [BaseConfig EXCEPT !.httpTimeout = "1s"],
      [BaseConfig EXCEPT !.httpLifetime = "1s"],
      [BaseConfig EXCEPT !.httpLifetime = "2s"],
      [BaseConfig EXCEPT !.httpLifetime = "4s"],
      [BaseConfig EXCEPT !.httpLifetime = Undefined] }

RenewRequests ==
    { Req(s, Undefined, "User", ip, Undefined, serial) :
        s \in {"user:internal", "user:external", "remote"},
        ip \in {Undefined, "127.0.0.1"},
        serial \in {NoSerial, DateOf(0)} }

IssueUser == EmptyHanded /\ \E r \in RenewRequests, uuid \in Uuids : DoIssue(r, uuid)

InitRenew ==
    /\ config \in RenewConfigs
    /\ now = 0
    /\ issued = NoCall
    /\ token = NoToken
    /\ res = NoCall
    /\ triple = NoTriple
    /\ resolved = NoCall

NextRenew ==
    \/ Tick
    \/ IssueUser
    \/ Discard
    \/ AddBearer
    \/ Adopt
    \/ Complete
    \/ HttpAuth

SpecRenew == InitRenew /\ [][NextRenew]_vars

-----------------------------------------------------------------------------
(* Where renewal does not apply: tokens of other issuers and subjects, no   *)
(* httpLifetime, and the remote and event protocols                        *)

NoRenewConfigs == {BaseConfig, [BaseConfig EXCEPT !.httpLifetime = Undefined]}

InitNoRenew ==
    /\ config \in NoRenewConfigs
    /\ now = 0
    /\ issued = NoCall
    /\ token = NoToken
    /\ res = NoCall
    /\ triple = NoTriple
    /\ resolved = NoCall

NextNoRenew ==
    \/ Tick
    \/ IssueUser
    \/ Forge
    \/ Resign
    \/ AddBearer
    \/ Complete
    \/ HttpAuth
    \/ RemoteAuth
    \/ EventAuth

SpecNoRenew == InitNoRenew /\ [][NextNoRenew]_vars

-----------------------------------------------------------------------------
(* IP binding: user tokens bound to an address or to none, presented to     *)
(* httpAuth from several addresses or with no source address               *)

BoundRequests ==
    { Req(s, Undefined, r, ip, Undefined, NoSerial) :
        s \in {"user:internal", "user:external"}, r \in {"User", "Application"},
        ip \in {Undefined, "127.0.0.1", "10.0.0.5"} }

IssueBound == EmptyHanded /\ \E r \in BoundRequests, uuid \in Uuids : DoIssue(r, uuid)

NextIp ==
    \/ Tick
    \/ IssueBound
    \/ Discard
    \/ Resign
    \/ AddBearer
    \/ Complete
    \/ HttpAuthAnyIp

SpecIp == Init /\ [][NextIp]_vars

-----------------------------------------------------------------------------
(* Properties *)

\* the Auth Info of the Context the last call returned
Auth == res.out.value.auth

\* the request object of the last issueToken call, as the call left it
IssuedReq == issued.out.req

\* permission.roles holds true for role
Admits(permission, role) ==
    role \in DOMAIN permission.roles /\ permission.roles[role] = TRUE

\* verify was called on the token that the last issueToken call made (or failed to)
VerifiedIssued == issued.op = "issueToken" /\ res.op = "verify"

\* the issued token is not yet expired
Fresh == FloorSec(now) < issued.out.value.payload.exp

\* the identity fields of the Auth Info are those of the request
SameIdentity ==
    /\ Auth.tokenId = IssuedReq.tokenId
    /\ Auth.subject = IssuedReq.subject
    /\ Auth.audience = IssuedReq.audience
    /\ Auth.userId = IssuedReq.userId
    /\ Auth.role = IssuedReq.role
    /\ Auth.scope = IssuedReq.scope
    /\ Auth.email = IssuedReq.email
    /\ Auth.ipAddress = IssuedReq.ipAddress

VerifiedExpired ==
    /\ res.op = "verify"
    /\ res.token.form = "jwt"
    /\ res.token.payload.exp * 1000 < res.at

\* the token's signature is made with the secret that secret() selects for it
SignedAsResolved(tok) ==
    /\ Ok(secret(tok.payload.sub, tok.payload.iss, tok.payload.aud))
    /\ tok.sig = secret(tok.payload.sub, tok.payload.iss, tok.payload.aud).value

\* the token carries no not-before time that is still to come
Active(tok) == tok.payload.nbf = << >> \/ tok.payload.nbf[1] <= FloorSec(now)

\* C3 as claimed: verify of a token whose exp is before the current time fails with
\* Unauthorized, whether or not its signature is valid.
C3_ExpiredAlwaysUnauthorized ==
    VerifiedExpired => res.out.err = "Unauthorized"

\* C3, amended: verify of a token whose exp is before the current time, whose
\* signature is valid for the secret resolved for it and whose nbf, if any, has
\* come, fails with Unauthorized; with an invalid signature it fails with BadRequest.
C3_ExpiredUnauthorized ==
    VerifiedExpired =>
        /\ (SignedAsResolved(res.token) /\ Active(res.token))
              => res.out.err = "Unauthorized"
        /\ ~SignedAsResolved(res.token) => res.out.err = "BadRequest"

C3_Witness ==
    /\ VerifiedExpired
    /\ SignedAsResolved(res.token)
    /\ res.out.err = "Unauthorized"
    /\ res.out.message = "Token: expired"

\* C4: verify of a token signed with a secret other than the one secret() selects
\* for its (sub, iss, aud) fails with BadRequest, for every permission and ip address.
C4_WrongSecretBadRequest ==
    (/\ res.op = "verify"
     /\ res.token.form = "jwt"
     /\ Ok(secret(res.token.payload.sub, res.token.payload.iss, res.token.payload.aud))
     /\ ~SignedAsResolved(res.token))
    => res.out.err = "BadRequest"

C4_Witness ==
    /\ res.op = "verify"
    /\ res.token.form = "jwt"
    /\ res.token.sig = BaseConfig.internalSecret
    /\ res.token.payload.sub = "user:internal"
    /\ res.token.payload.exp * 1000 < res.at
    /\ res.out.err = "BadRequest"

-----------------------------------------------------------------------------
(* Properties of the entry protocols *)

\* the last call was httpAuth, remoteAuth or eventAuth
EntryCall == res.op \in {"httpAuth", "remoteAuth", "eventAuth"}

\* C2: every Context httpAuth, remoteAuth or eventAuth returns has an auth.role that
\* the permission's role set maps to true, or the role Application.
C2_RoleAdmitted ==
    (EntryCall /\ Ok(res.out))
    => (Auth.role = "Application" \/ Admits(res.permission, Auth.role))

C2_Witness ==
    /\ res.op = "httpAuth"
    /\ Ok(res.out)
    /\ Auth.subject = "user:internal"
    /\ Auth.role = "User"
    /\ Admits(res.permission, "Debug")

\* none of the five rules of secret() matches the triple
Unmatched(sub, iss, aud) == secretRule(sub, iss, aud) = 0

\* the last call ran verify on the token it was given: httpAuth under a permission
\* without Public and Debug, remoteAuth under one with Remote or Internal
ReachedVerify ==
    \/ /\ res.op = "httpAuth"
       /\ ~Admits(res.permission, "Public")
       /\ ~Admits(res.permission, "Debug")
    \/ /\ res.op = "remoteAuth"
       /\ Admits(res.permission, "Remote") \/ Admits(res.permission, "Internal")

\* C5 as claimed: httpAuth or remoteAuth on a well-formed token whose (sub, iss, aud)
\* matches none of the five secret rules fails with Unauthorized.
C5_UnresolvedIsUnauthorized ==
    (/\ ReachedVerify
     /\ res.token.form = "jwt"
     /\ Unmatched(res.token.payload.sub, res.token.payload.iss,
                  res.token.payload.aud))
    => res.out.err = "Unauthorized"

\* C7: httpAuth under a permission with Public and without Debug returns the
\* synthetic public Context whatever token is supplied; the token only appears as
\* auth.token, as it was sent.
C7_PublicNeverThrows ==
    (/\ res.op = "httpAuth"
     /\ Admits(res.permission, "Public")
     /\ ~Admits(res.permission, "Debug"))
    => /\ Ok(res.out)
       /\ Auth.subject = "user:public"
       /\ Auth.role = "Public"
       /\ Auth.userId = Null
       /\ Auth.issuer = config.appId
       /\ Auth.audience = config.appId
       /\ Auth.renewed = FALSE
       /\ Auth.token = res.token

C7_Witness ==
    /\ res.op = "httpAuth"
    /\ Admits(res.permission, "Public")
    /\ ~Admits(res.permission, "Debug")
    /\ res.token.form = "jwt"
    /\ res.token.bearer
    /\ res.token.payload.exp * 1000 < res.at
    /\ Ok(res.out)

\* C8: httpAuth under a permission with Debug fails with Forbidden when the source
\* IP is neither 127.0.0.1 nor ::1, with or without Public, whatever the token.
C8_DebugOnlyLocalhost ==
    (/\ res.op = "httpAuth"
     /\ Admits(res.permission, "Debug")
     /\ res.ip \notin {"127.0.0.1", "::1"})
    => res.out.err = "Forbidden"

C8_Witness ==
    /\ res.op = "httpAuth"
    /\ Admits(res.permission, "Debug")
    /\ Admits(res.permission, "Public")
    /\ res.ip = "10.0.0.5"
    /\ res.token.form = "jwt"
    /\ SignedAsResolved(res.token)
    /\ res.out.err = "Forbidden"

\* httpAuth was called from a loopback address under a permission with Debug, with a
\* token on which verify fails
DebugWithBadToken ==
    /\ res.op = "httpAuth"
    /\ Admits(res.permission, "Debug")
    /\ res.ip \in {"127.0.0.1", "::1"}
    /\ ~Absent(res.token)
    /\ ~Ok(verify("rid", res.token, res.permission, res.ip))

\* C9: httpAuth under a permission with Debug, from a loopback address, with a token
\* on which verification fails, returns the synthetic debug Context.
C9_DebugSwallowsFailure ==
    DebugWithBadToken
    => /\ Ok(res.out)
       /\ Auth.subject = "user:debug"
       /\ Auth.role = "Debug"

C9_Witness ==
    /\ DebugWithBadToken
    /\ res.token.form = "jwt"
    /\ SignedAsResolved(res.token)
    /\ verify("rid", res.token, res.permission, res.ip).err = "Unauthorized"
    /\ Ok(res.out)
    /\ Auth.role = "Debug"

\* remoteAuth was called under a permission with Internal and without Remote, on a
\* token whose issuer differs from its audience
InternalOnlyRemoteToken ==
    /\ res.op = "remoteAuth"
    /\ Admits(res.permission, "Internal")
    /\ ~Admits(res.permission, "Remote")
    /\ res.token.form = "jwt"
    /\ res.token.payload.iss # res.token.payload.aud

\* C10 as claimed: remoteAuth under a permission with Internal and without Remote
\* fails with Unauthorized for every token whose issuer differs from its audience.
C10_RemoteTokenAlwaysUnauthorized ==
    InternalOnlyRemoteToken => res.out.err = "Unauthorized"

\* C10, amended: remoteAuth under a permission with Internal and without Remote
\* returns no Context for a token whose issuer differs from its audience: it fails
\* with Unauthorized when the token's signature is valid for its resolved secret and
\* its nbf has come, and with BadRequest or Unauthorized otherwise; and remoteAuth
\* never returns a Context with auth.remote = true unless the permission has Remote.
C10_InternalRejectsRemote ==
    /\ InternalOnlyRemoteToken
       => /\ res.out.err \in {"Unauthorized", "BadRequest"}
          /\ (SignedAsResolved(res.token) /\ Active(res.token))
                => res.out.err = "Unauthorized"
    /\ (res.op = "remoteAuth" /\ Ok(res.out) /\ Auth.remote)
       => Admits(res.permission, "Remote")

C10_Witness ==
    /\ InternalOnlyRemoteToken
    /\ SignedAsResolved(res.token)
    /\ FloorSec(now) < res.token.payload.exp
    /\ res.token.payload.iss = "peer"
    /\ res.token.payload.role = "Application"
    /\ res.out.err = "Unauthorized"
    /\ res.out.message = "Internal request allowed only"

-----------------------------------------------------------------------------
(* Properties of secret() and timeout() *)

\* C6 as claimed: for every triple that matches none of the five resolution rules,
\* secret() and timeout() each fail with Unauthorized.
C6_UnresolvedThrowsUnauthorized ==
    (/\ resolved.op = "resolve"
     /\ Unmatched(triple.subject, triple.issuer, triple.audience))
    => /\ resolved.secret.err = "Unauthorized"
       /\ resolved.timeout.err = "Unauthorized"

-----------------------------------------------------------------------------
(* Properties of eventAuth and of missing tokens *)

\* C11: eventAuth fails with Forbidden exactly when the permission does not allow
\* Internal; otherwise it returns the synthetic event Context (subject event, role
\* Internal, issuer = audience = application id, userId null, token null, renewed
\* false), whatever token the caller holds.
C11_EventGate ==
    res.op = "eventAuth"
    => /\ res.out.err = "Forbidden" <=> ~Admits(res.permission, "Internal")
       /\ res.out.err \in {"Forbidden", ""}
       /\ Ok(res.out)
          => /\ Auth.subject = "event"
             /\ Auth.role = "Internal"
             /\ Auth.issuer = config.appId
             /\ Auth.audience = config.appId
             /\ Auth.userId = Null
             /\ Auth.token = NoToken
             /\ Auth.renewed = FALSE
             /\ Auth.remote = FALSE

C11_Witness ==
    /\ res.op = "eventAuth"
    /\ res.token.form = "jwt"
    /\ res.token.sig = "attacker-secret"
    /\ Admits(res.permission, "Internal")
    /\ ~Admits(res.permission, "Remote")
    /\ Ok(res.out)
    /\ Auth.subject = "event"

-----------------------------------------------------------------------------
(* Properties of renewal *)

\* what verify makes of the token of the last call
Verified == verify("rid", res.token, res.permission, res.ip)

\* httpAuth ran verify and renew on the token it was given: the permission has
\* neither Public nor Debug, or it has Debug and the caller is on a loopback address
RenewalReached ==
    /\ res.op = "httpAuth"
    /\ ~Absent(res.token)
    /\ \/ ~Admits(res.permission, "Public") /\ ~Admits(res.permission, "Debug")
       \/ Admits(res.permission, "Debug") /\ res.ip \in {"127.0.0.1", "::1"}
    /\ Ok(Verified)

\* the verified token is one renew() considers: issued by this application to a
\* user:internal or user:external subject, with httpLifetime configured
Renewable ==
    /\ RenewalReached
    /\ Verified.value.auth.issuer = config.appId
    /\ Verified.value.auth.subject \in {"user:internal", "user:external"}
    /\ config.httpLifetime \notin {Undefined, Null, ""}

\* time left until the presented token expires, and its expiry minus its serial
Remaining == Verified.value.auth.expires.ms - res.at
TotalAge == Verified.value.auth.expires.ms - Verified.value.auth.serial.ms

\* the token is in the back half of its lifetime and its total age is under
\* httpLifetime
DueForRenewal ==
    /\ Renewable
    /\ Remaining <= MS(config.httpTimeout) \div 2
    /\ TotalAge < MS(config.httpLifetime)

\* httpAuth returned the presented token as it was verified, not renewed
ReturnedUnchanged ==
    /\ Ok(res.out)
    /\ Auth.renewed = FALSE
    /\ Auth.token = stripBearer(res.token)

C13_MissingTokenUnauthorized ==
    (ReachedVerify /\ Absent(res.token)) => res.out.err = "Unauthorized"

-----------------------------------------------------------------------------
(* Properties of the audience *)

\* the last call ran verify on a JWT whose aud is not the application id
ForeignAudience ==
    /\ ReachedVerify
    /\ res.token.form = "jwt"
    /\ res.token.payload.aud # config.appId

-----------------------------------------------------------------------------
(* Properties of issueToken *)

\* the last issueToken call returned a token
Minted == issued.op = "issueToken" /\ Ok(issued.out)

\* C15 as claimed: every token issueToken produces, for any IssueRequest and any
\* supplied serial, at any time, satisfies exp >= iat >= ist.
C15_ExpIatIstOrdered ==
    Minted
    => /\ issued.out.value.payload.exp >= issued.out.value.payload.iat
       /\ issued.out.value.payload.iat >= issued.out.value.payload.ist

\* C18 as claimed: issueToken never mints, and verify never accepts, a token with
\* role Application signed with the HTTP secret (subject starting with user:).
C18_ApplicationNotOnHttpSecret ==
    /\ Minted
       => ~(/\ issued.out.value.payload.role = "Application"
            /\ issued.out.value.sig = config.httpSecret)
    /\ (res.op = "verify" /\ Ok(res.out))
       => ~(/\ Auth.role = "Application"
            /\ Auth.subject \in {"user:internal", "user:external"}
            /\ res.token.sig = config.httpSecret)

\* C20 as claimed: issueToken leaves the IssueRequest it is given unchanged, so a
\* second call with the same object defaults its own token id.
C20_RequestUnchanged ==
    issued.op = "issueToken" => IssuedReq = issued.arg

-----------------------------------------------------------------------------
(* Properties of secret() and timeout() as tables *)

\* every configured value is non-empty and the triple names only this application
\* and peers with a registered secret
FullyConfigured ==
    /\ config = BaseConfig
    /\ triple.issuer \in {"app", "peer", "2001"}
    /\ triple.audience \in {"app", "peer", "2001"}

\* C16 as claimed: with all configuration values non-empty, timeout returns a value
\* for exactly the triples for which secret returns a value, and fails with
\* Unauthorized for exactly the triples for which secret fails.
C16_TimeoutMirrorsSecret ==
    (resolved.op = "resolve" /\ FullyConfigured)
    => /\ Ok(resolved.timeout) <=> Ok(resolved.secret)
       /\ resolved.timeout.err = "Unauthorized" <=> resolved.secret.err = "Unauthorized"

\* secret() returned v, or failed with Unauthorized where v is an empty value
SecretIs(v) ==
    IF v \in {Undefined, Null, ""}
    THEN resolved.secret.err = "Unauthorized"
    ELSE resolved.secret = Return(v)

\* C17: secret(subject, issuer, audience) is, first match winning: the HTTP secret
\* when subject starts with user:; the internal secret when subject is internal or
\* remote and audience = issuer = application id; the secret registered for the
\* issuer when subject is remote, audience = application id and issuer differs; the
\* secret registered for the audience when subject is remote, issuer = application
\* id and audience differs; on every other triple, and where the selected value is
\* empty, it fails with Unauthorized.
C17_SecretTable ==
    resolved.op = "resolve"
    => IF triple.subject \in {"user:internal", "user:external", "user:public",
                              "user:debug"}
       THEN SecretIs(config.httpSecret)
       ELSE IF /\ triple.subject \in {"internal", "remote"}
               /\ triple.audience = config.appId
               /\ triple.issuer = config.appId
       THEN SecretIs(config.internalSecret)
       ELSE IF /\ triple.subject = "remote"
               /\ triple.audience = config.appId
               /\ triple.issuer # config.appId
       THEN SecretIs(config.remoteSecrets[triple.issuer])
       ELSE IF /\ triple.subject = "remote"
               /\ triple.issuer = config.appId
               /\ triple.audience # config.appId
       THEN SecretIs(config.remoteSecrets[triple.audience])
       ELSE resolved.secret.err = "Unauthorized"

C17_Witness ==
    /\ resolved.op = "resolve"
    /\ triple = [subject |-> "remote", issuer |-> "app", audience |-> "peer"]
    /\ config.internalSecret = ""
    /\ resolved.secret = Return("peer-secret")

-----------------------------------------------------------------------------
(* Forbidden and the token *)

\* tokens a second caller could send instead: none, text that is no token, a token
\* with a bad signature, a token this application accepts
OtherTokens ==
    { NoToken, Garbage, forgedToken("user:internal", "app"),
      [forgedToken("user:internal", "app") EXCEPT !.sig = config.httpSecret] }

\* the outcome of the last call had it been made with token t, all else equal
OutcomeWith(t) ==
    CASE res.op = "httpAuth" ->
            httpAuth(HttpRequest(t, 1, res.ip), res.permission, "uuid-1")
      [] res.op = "remoteAuth" ->
            remoteAuth([requestId |-> "rid", token |-> t], res.permission)
      [] res.op = "eventAuth" ->
            eventAuth([requestId |-> "rid"], res.permission)

\* C19: whether httpAuth, remoteAuth or eventAuth fails with Forbidden does not
\* depend on the token: the same call with the same permission and source IP and
\* any other token fails with Forbidden exactly when this one does.
C19_ForbiddenIgnoresToken ==
    EntryCall
    => \A t \in OtherTokens :
          OutcomeWith(t).err = "Forbidden" <=> res.out.err = "Forbidden"

C19_Witness ==
    /\ res.op = "remoteAuth"
    /\ res.token.form = "jwt"
    /\ SignedAsResolved(res.token)
    /\ res.token.payload.role = "User"
    /\ Admits(res.permission, "User")
    /\ res.out.err = "Forbidden"
    /\ OutcomeWith(NoToken).err = "Forbidden"

-----------------------------------------------------------------------------
(* Properties of renewal chains *)

\* httpAuth reissued the token it was given
Reissued == res.op = "httpAuth" /\ Ok(res.out) /\ Auth.renewed = TRUE

\* the latest exp the cap allows a token with first-issue time ist, in ms
CapOf(ist) == ist * MsPerSec + MS(config.httpLifetime) + MS(config.httpTimeout)

Reverified == verify("rid", Auth.token, res.permission, res.ip)

\* C22: when renew reissues a token, the new token carries the presented token's
\* subject, role, scope, user id, audience and ip address; verifying it under the
\* same permission and source IP succeeds with that identity; and the Auth Info
\* returned differs from the verified one in token and renewed only.
C22_ReissueKeepsIdentity ==
    Reissued
    => /\ Auth.token.payload.sub = res.token.payload.sub
       /\ Auth.token.payload.role = res.token.payload.role
       /\ Auth.token.payload.scope = res.token.payload.scope
       /\ Auth.token.payload.oid = res.token.payload.oid
       /\ Auth.token.payload.aud = res.token.payload.aud
       /\ Auth.token.payload.ipaddr = res.token.payload.ipaddr
       /\ Ok(Reverified)
       /\ Reverified.value.auth.subject = Verified.value.auth.subject
       /\ Reverified.value.auth.role = Verified.value.auth.role
       /\ Reverified.value.auth.scope = Verified.value.auth.scope
       /\ Reverified.value.auth.userId = Verified.value.auth.userId
       /\ Reverified.value.auth.audience = Verified.value.auth.audience
       /\ Reverified.value.auth.ipAddress = Verified.value.auth.ipAddress
       /\ Auth = [Verified.value.auth EXCEPT !.token = Auth.token, !.renewed = TRUE]

C22_Witness ==
    /\ Reissued
    /\ Admits(res.permission, "Debug")
    /\ res.token.payload.ipaddr = "127.0.0.1"
    /\ res.ip = "127.0.0.1"
    /\ res.token.payload.sub = "user:external"
    /\ Ok(Reverified)
    /\ Auth.expires.ms < Auth.token.payload.exp * MsPerSec

-----------------------------------------------------------------------------
(* Properties of the cases renewal leaves alone *)

\* C23: where httpAuth verifies a token whose issuer is not the application id, or
\* no httpLifetime is configured, or the subject is neither user:internal nor
\* user:external, the verified token comes back as it is with renewed = false; and
\* every Context remoteAuth returns has renewed = false and the token it was given
\* (without its Bearer prefix), every Context eventAuth returns has renewed = false
\* and no token.
C23_NoRenewalElsewhere ==
    /\ (RenewalReached /\ ~Renewable) => ReturnedUnchanged
    /\ (res.op = "remoteAuth" /\ Ok(res.out))
       => /\ Auth.renewed = FALSE
          /\ Auth.token = stripBearer(res.token)
    /\ (res.op = "eventAuth" /\ Ok(res.out))
       => /\ Auth.renewed = FALSE
          /\ Auth.token = NoToken

\* a user token of another issuer, in the back half of its lifetime, is verified by
\* httpAuth and comes back as it is
C23_Witness ==
    /\ RenewalReached
    /\ res.token.payload.iss = "peer"
    /\ res.token.payload.sub = "user:internal"
    /\ config.httpLifetime = "3s"
    /\ Remaining <= MS(config.httpTimeout) \div 2
    /\ ReturnedUnchanged

-----------------------------------------------------------------------------
(* Properties of the IP binding *)

\* httpAuth ran verify on a JWT because the permission has neither Public nor Debug
HttpVerified ==
    /\ res.op = "httpAuth"
    /\ ~Admits(res.permission, "Public")
    /\ ~Admits(res.permission, "Debug")
    /\ res.token.form = "jwt"

\* the request has a source IP and the token, not of role Application, is bound to
\* another address or to none
IpMismatch ==
    /\ HttpVerified
    /\ res.ip \notin {Undefined, Null, ""}
    /\ res.token.payload.role # "Application"
    /\ res.token.payload.ipaddr # res.ip

\* the token passes the checks verify makes before the ip and role checks
PassesUpToIp ==
    /\ SignedAsResolved(res.token)
    /\ FloorSec(res.at) < res.token.payload.exp
    /\ res.token.payload.aud = config.appId

\* a token of role Application that passes the earlier checks is accepted whatever
\* the source IP and the permission's roles
ApplicationExempt ==
    (HttpVerified /\ PassesUpToIp /\ res.token.payload.role = "Application")
    => Ok(res.out) /\ Auth.role = "Application"

-----------------------------------------------------------------------------
(* Properties of the Debug branch with a valid token *)

\* httpAuth was called under a permission with Debug from a loopback address
DebugLoopback ==
    /\ res.op = "httpAuth"
    /\ Admits(res.permission, "Debug")
    /\ res.ip \in {"127.0.0.1", "::1"}

\* C25: httpAuth under a permission with Debug, from a loopback address, with a
\* token that passes verification, returns the verified token's identity (subject,
\* role, user id) with renewal applied; the synthetic debug identity is returned
\* only when no token is supplied or verification fails.
C25_DebugAdoptsVerified ==
    /\ (DebugLoopback /\ ~Absent(res.token) /\ Ok(Verified))
       => /\ Ok(res.out)
          /\ Auth.subject = res.token.payload.sub
          /\ Auth.role = res.token.payload.role
          /\ Auth.userId = res.token.payload.oid
          /\ Auth = renew(Verified.value.auth, "uuid-1").value
    /\ (DebugLoopback /\ Ok(res.out) /\ Auth.subject = "user:debug")
       => Absent(res.token) \/ ~Ok(Verified)

C25_Witness ==
    /\ DebugLoopback
    /\ ~Absent(res.token)
    /\ Ok(Verified)
    /\ Reissued
    /\ Auth.subject = "user:internal"
    /\ Auth.role = "User"

====
